---- MODULE Spec2Model ----
(***************************************************************************)
(* Model of mpi_trap2.c: the parallel trapezoidal rule whose input is      *)
(* disseminated from rank 0 by a hand-written binomial-tree broadcast      *)
(* (Get_input) and whose local estimates are gathered linearly at rank 0   *)
(* (main).  One process per rank; the processes interact only through      *)
(* MPI_Send / MPI_Recv on MPI_COMM_WORLD with tag 0.                       *)
(*                                                                         *)
(* Doubles are modelled in exact arithmetic as normalised rationals        *)
(* <<num, den>> with den > 0.                                              *)
(***************************************************************************)
EXTENDS Integers, Sequences, FiniteSets, TLC

\* ------------------------------------------------------------------ bounds
\* Largest process group explored (mpiexec -n <1..MaxN>).
MaxN == 4
\* Largest number of trapezoids n found in the input file.
MaxSeg == 4

\* Values the input file may hold for a and b (decimal numbers, here integers).
AVals == {0}
BVals == {1}
NVals == 1 .. MaxSeg

\* ------------------------------------------------------- exact arithmetic
Abs(x) == IF x < 0 THEN -x ELSE x

RECURSIVE GCD(_, _)
GCD(x, y) == IF y = 0 THEN x ELSE GCD(y, x % y)

\* The rational num/den in lowest terms with a positive denominator.
RNorm(num, den) ==
    LET s == IF den < 0 THEN -1 ELSE 1
        g == GCD(Abs(num), Abs(den))
    IN  <<(s * num) \div g, (s * den) \div g>>

\* The operations on doubles.  Each binds its arguments with u \in {x}, so
\* that an argument that is itself a long computation is evaluated once.
RInt(k) == <<k, 1>>

RAdd(x, y) ==
    CHOOSE z \in {RNorm(u[1] * v[2] + v[1] * u[2], u[2] * v[2]) :
                      u \in {x}, v \in {y}} : TRUE

RSub(x, y) ==
    CHOOSE z \in {RNorm(u[1] * v[2] - v[1] * u[2], u[2] * v[2]) :
                      u \in {x}, v \in {y}} : TRUE

RMul(x, y) ==
    CHOOSE z \in {RNorm(u[1] * v[1], u[2] * v[2]) : u \in {x}, v \in {y}} : TRUE

RDivInt(x, k) == CHOOSE z \in {RNorm(u[1], u[2] * k) : u \in {x}} : TRUE

RScale(k, x) == CHOOSE z \in {RNorm(k * u[1], u[2]) : u \in {x}} : TRUE

RHalf(x) == CHOOSE z \in {RNorm(u[1], 2 * u[2]) : u \in {x}} : TRUE

\* The content of an uninitialised double / int local of main (a, b, n
\* before Get_input stores into them): a marker that no step may read.
UndefD == <<0, 0>>
UndefI == -1

\* What the uninitialised a, b, n of rank 0 may happen to hold when fscanf
\* does not store into them.
Garbage == {[a |-> <<0, 1>>, b |-> <<0, 1>>, n |-> 1],
            [a |-> <<1, 1>>, b |-> <<2, 1>>, n |-> 2]}

\* ------------------------------------------------- pure functions of the code
\* double f(double x) { return x*x; }
f(x) == CHOOSE z \in {RMul(u, u) : u \in {x}} : TRUE

\* The for loop of Trap: i runs from 1 to trap_count-1.
RECURSIVE TrapLoop(_, _, _, _, _)
TrapLoop(estimate, left_endpt, i, trap_count, base_len) ==
    IF i <= trap_count - 1
    THEN TrapLoop(RAdd(estimate, f(RAdd(left_endpt, RScale(i, base_len)))),
                  left_endpt, i + 1, trap_count, base_len)
    ELSE estimate

Trap(left_endpt, right_endpt, trap_count, base_len) ==
    RMul(TrapLoop(RHalf(RAdd(f(left_endpt), f(right_endpt))),
                  left_endpt, 1, trap_count, base_len),
         base_len)

\* The number of times Trap calls f: two endpoints plus the loop's calls.
RECURSIVE TrapLoopEvals(_, _)
TrapLoopEvals(i, trap_count) ==
    IF i <= trap_count - 1 THEN 1 + TrapLoopEvals(i + 1, trap_count) ELSE 0

\* A count of the calls of f that counts one endpoint only.
TrapEvalsOneEndpoint(trap_count) == 1 + TrapLoopEvals(1, trap_count)

TrapEvals(trap_count) == 2 + TrapLoopEvals(1, trap_count)

RECURSIVE Pow2(_)
Pow2(k) == IF k = 0 THEN 1 ELSE 2 * Pow2(k - 1)

\* count = ceil(log(comm_sz)/log(2)): the least d with 2^d >= comm_sz
\* (the double computation agrees with it for every comm_sz < 2^16).
RECURSIVE CeilLog2From(_, _)
CeilLog2From(d, sz) == IF Pow2(d) >= sz THEN d ELSE CeilLog2From(d + 1, sz)

\* A count that rounds the logarithm down (floor where the code has ceil).
FloorLog2(sz) ==
    IF Pow2(CeilLog2From(0, sz)) = sz
    THEN CeilLog2From(0, sz)
    ELSE CeilLog2From(0, sz) - 1

CeilLog2(sz) == CeilLog2From(0, sz)

\* A send test whose partner bound is off by one.
SendCondStrict(my_rank, div, cd, sz) ==
    my_rank % div = 0 /\ my_rank + cd < sz - 1

\* A send test without the stride condition my_rank % divisor == 0.
SendCondNoStride(my_rank, div, cd, sz) == my_rank + cd < sz

\* The role test of the broadcast loop.
SendCond(my_rank, div, cd, sz) == my_rank % div = 0 /\ my_rank + cd < sz

RecvCond(my_rank, div, cd, sz) ==
    ~SendCond(my_rank, div, cd, sz) /\ my_rank % cd = 0

\* A local_n that rounds the quotient up instead of truncating it.
LocalNRoundUp(n_, sz) == (n_ + sz - 1) \div sz

\* local_n = n/comm_sz (int division; n > 0, comm_sz > 0).
LocalN(n_, sz) == n_ \div sz

\* h = (b-a)/n.
StepH(a_, b_, n_) == RDivInt(RSub(b_, a_), n_)

\* A local_a that forgets the factor local_n.
LocalANoCount(a_, my_rank, ln, h_) == RAdd(a_, RScale(my_rank, h_))

\* local_a = a + my_rank*local_n*h.
LocalA(a_, my_rank, ln, h_) == RAdd(a_, RScale(my_rank * ln, h_))

\* total_int = local_int where the code has total_int += local_int.
AccumulateAssign(total, x) == x

\* total_int += local_int.
Accumulate(total, x) == RAdd(total, x)

\* A gather loop that advances source by two.
NextSourceSkip(src) == src + 2

\* source++ of the gather loop (line 77).
NextSource(src) == src + 1

\* A gather loop that stops one source early.
GatherDoneEarly(src, sz) == ~(src < sz - 1)

\* The gather loop's test source < comm_sz fails.
GatherDone(src, sz) == ~(src < sz)

\* local_b = local_a + local_n*h.
LocalB(la, ln, h_) == RAdd(la, RScale(ln, h_))

\* ------------------------------------------------------------------- state
VARIABLES
    comm_sz,          \* MPI_Comm_size
    rendezvous,       \* TRUE: MPI_Send completes only when received; FALSE: buffered
    file,             \* mpi_trap2-inputs.txt: [exists, fields]
    pc,               \* position of each rank in main / Get_input
    count, divisor, core_difference, i,     \* locals of Get_input, per rank
    a, b, n,          \* locals of main, per rank
    h, local_n, local_a, local_b, local_int,  \* locals of main, per rank
    total_int, source,                      \* locals of main used by rank 0
    chan,             \* messages in flight, per <<sender, receiver>>, FIFO
    output,           \* what has been printed, in order
    nrecv             \* history: how often each rank entered the receive branch

vars == <<comm_sz, rendezvous, file, pc, count, divisor, core_difference, i,
          a, b, n, h, local_n, local_a, local_b, local_int, total_int, source,
          chan, output, nrecv>>

getInputVars == <<count, divisor, core_difference, i>>
mainVars == <<h, local_n, local_a, local_b, local_int, total_int, source>>

Ranks == 0 .. comm_sz - 1

Files ==
    {[exists |-> FALSE, fields |-> <<>>]} \cup
    {[exists |-> TRUE, fields |-> s] :
        s \in {<<>>} \cup {<<RInt(x)>> : x \in AVals}
              \cup {<<RInt(x), RInt(y)>> : x \in AVals, y \in BVals}
              \cup {<<RInt(x), RInt(y), k>> : x \in AVals, y \in BVals, k \in NVals}}

Init ==
    /\ comm_sz \in 1 .. MaxN
    /\ rendezvous \in BOOLEAN
    /\ file \in Files
    /\ pc = [r \in Ranks |-> "start"]
    /\ count = [r \in Ranks |-> 0]
    /\ divisor = [r \in Ranks |-> 0]
    /\ core_difference = [r \in Ranks |-> 0]
    /\ i = [r \in Ranks |-> 0]
    /\ a = [r \in Ranks |-> UndefD]
    /\ b = [r \in Ranks |-> UndefD]
    /\ n = [r \in Ranks |-> UndefI]
    /\ h = [r \in Ranks |-> UndefD]
    /\ local_n = [r \in Ranks |-> UndefI]
    /\ local_a = [r \in Ranks |-> UndefD]
    /\ local_b = [r \in Ranks |-> UndefD]
    /\ local_int = [r \in Ranks |-> UndefD]
    /\ total_int = UndefD
    /\ source = UndefI
    /\ chan = [p \in Ranks \X Ranks |-> <<>>]
    /\ output = <<>>
    /\ nrecv = [r \in Ranks |-> 0]

\* ------------------------------------------------------------ Get_input
\* Lines 109-116: count, divisor and core_difference.
Setup(r) ==
    /\ count' = [count EXCEPT ![r] = CeilLog2(comm_sz)]
    /\ divisor' = [divisor EXCEPT ![r] = Pow2(CeilLog2(comm_sz))]
    /\ core_difference' =
           [core_difference EXCEPT ![r] = Pow2(CeilLog2(comm_sz)) \div 2]
    /\ UNCHANGED i

\* Get_input up to the broadcast loop at a rank other than 0 (lines 109-119).
EnterGetInput(r) ==
    /\ r # 0
    /\ pc[r] = "start"
    /\ Setup(r)
    /\ pc' = [pc EXCEPT ![r] = "loop"]
    /\ UNCHANGED <<comm_sz, rendezvous, file, a, b, n, mainVars, chan, output,
                   nrecv>>

\* What fscanf("%lf %lf %d") leaves in a field: the k-th number of the file
\* when the file holds one, else the field's indeterminate old content.
Scanned(k, old) == IF Len(file.fields) >= k THEN file.fields[k] ELSE old

\* Get_input up to the broadcast loop at rank 0 (lines 109-127): neither
\* fopen's nor fscanf's result is checked.  A file that ends early leaves the
\* remaining fields with their old, uninitialised content; a missing file
\* makes fscanf(NULL, ...) undefined: the process dies there, or goes on with
\* three uninitialised fields.
ReadInput ==
    /\ 0 \in Ranks
    /\ pc[0] = "start"
    /\ Setup(0)
    /\ \/ /\ file.exists
          /\ \E g \in Garbage :
                /\ a' = [a EXCEPT ![0] = Scanned(1, g.a)]
                /\ b' = [b EXCEPT ![0] = Scanned(2, g.b)]
                /\ n' = [n EXCEPT ![0] = Scanned(3, g.n)]
          /\ output' = output \o <<[rank |-> 0, what |-> "iam"],
                                   [rank |-> 0, what |-> "inputs"]>>
          /\ pc' = [pc EXCEPT ![0] = "loop"]
       \/ /\ ~file.exists
          /\ output' = Append(output, [rank |-> 0, what |-> "iam"])
          /\ pc' = [pc EXCEPT ![0] = "crashed"]
          /\ UNCHANGED <<a, b, n>>
       \/ /\ ~file.exists
          /\ \E g \in Garbage :
                /\ a' = [a EXCEPT ![0] = g.a]
                /\ b' = [b EXCEPT ![0] = g.b]
                /\ n' = [n EXCEPT ![0] = g.n]
          /\ output' = output \o <<[rank |-> 0, what |-> "iam"],
                                   [rank |-> 0, what |-> "inputs"]>>
          /\ pc' = [pc EXCEPT ![0] = "loop"]
    /\ UNCHANGED <<comm_sz, rendezvous, file, mainVars, chan, nrecv>>

\* An end of iteration that divides core_difference by four.
EndIterationQuarter(r) ==
    /\ divisor' = [divisor EXCEPT ![r] = divisor[r] \div 2]
    /\ core_difference' = [core_difference EXCEPT ![r] = core_difference[r] \div 4]
    /\ i' = [i EXCEPT ![r] = i[r] + 1]

\* divisor /= 2; core_difference /= 2; i++ (lines 144-145 and the for header).
EndIteration(r) ==
    /\ divisor' = [divisor EXCEPT ![r] = divisor[r] \div 2]
    /\ core_difference' = [core_difference EXCEPT ![r] = core_difference[r] \div 2]
    /\ i' = [i EXCEPT ![r] = i[r] + 1]

\* Lines 61-69 of main, then the branch of line 72: a rank other than 0 goes
\* on to send local_int, rank 0 starts the gather with total_int = local_int
\* and source = 1.
Compute(r) ==
    LET hh == StepH(a[r], b[r], n[r])
        ln == LocalN(n[r], comm_sz)
        la == LocalA(a[r], r, ln, hh)
        lb == LocalB(la, ln, hh)
        li == Trap(la, lb, ln, hh)
    IN  /\ h' = [h EXCEPT ![r] = hh]
        /\ local_n' = [local_n EXCEPT ![r] = ln]
        /\ local_a' = [local_a EXCEPT ![r] = la]
        /\ local_b' = [local_b EXCEPT ![r] = lb]
        /\ local_int' = [local_int EXCEPT ![r] = li]
        /\ IF r = 0
           THEN /\ total_int' = li
                /\ source' = 1
                /\ pc' = [pc EXCEPT ![r] = "gather"]
           ELSE /\ pc' = [pc EXCEPT ![r] = "send_int"]
                /\ UNCHANGED <<total_int, source>>

\* The head of one iteration of the broadcast loop (lines 130-131, 137): the
\* loop test and the role test.  When the loop test fails Get_input returns
\* and main computes the local estimate.
LoopStep(r) ==
    /\ pc[r] = "loop"
    /\ \/ /\ i[r] < count[r]
          /\ SendCond(r, divisor[r], core_difference[r], comm_sz)
          /\ pc' = [pc EXCEPT ![r] = "send_a"]
          /\ UNCHANGED <<getInputVars, mainVars, nrecv>>
       \/ /\ i[r] < count[r]
          /\ RecvCond(r, divisor[r], core_difference[r], comm_sz)
          /\ pc' = [pc EXCEPT ![r] = "recv_a"]
          /\ nrecv' = [nrecv EXCEPT ![r] = nrecv[r] + 1]
          /\ UNCHANGED <<getInputVars, mainVars>>
       \/ /\ i[r] < count[r]
          /\ ~SendCond(r, divisor[r], core_difference[r], comm_sz)
          /\ ~RecvCond(r, divisor[r], core_difference[r], comm_sz)
          /\ EndIteration(r)
          /\ UNCHANGED <<pc, count, mainVars, nrecv>>
       \/ /\ ~(i[r] < count[r])
          /\ Compute(r)
          /\ UNCHANGED <<getInputVars, nrecv>>
    /\ UNCHANGED <<comm_sz, rendezvous, file, a, b, n, chan, output>>

\* A receive that takes the newest message of the sender.
Newest(q) == q[Len(q)]

\* The message an MPI_Recv takes from its sender: the oldest one in flight
\* (messages of one sender to one receiver do not overtake each other).
Oldest(q) == Head(q)

\* The field a broadcast send or receive at this position transfers.
FieldOf(p) ==
    CASE p \in {"send_a", "wait_a", "recv_a"} -> "a"
      [] p \in {"send_b", "wait_b", "recv_b"} -> "b"
      [] p \in {"send_n", "wait_n", "recv_n"} -> "n"

\* A sender that passes b_p where the code passes a_p.
FieldValueMixed(r, fld) ==
    CASE fld = "a" -> b[r] [] fld = "b" -> b[r] [] fld = "n" -> n[r]

\* The buffer a broadcast send reads: a_p, b_p or n_p.
FieldValue(r, fld) ==
    CASE fld = "a" -> a[r] [] fld = "b" -> b[r] [] fld = "n" -> n[r]

\* Where a rank goes once the transfer of a field is complete; after the
\* third field the iteration ends.
AfterField(r, fld, nexta, nextb) ==
    /\ pc' = [pc EXCEPT ![r] =
                 CASE fld = "a" -> nexta [] fld = "b" -> nextb [] fld = "n" -> "loop"]
    /\ IF fld = "n" THEN EndIteration(r) ELSE UNCHANGED <<divisor, core_difference, i>>
    /\ UNCHANGED count

\* MPI_Send of a, b or n to my_rank+core_difference (lines 133-135).
BcastSend(r) ==
    /\ pc[r] \in {"send_a", "send_b", "send_n"}
    /\ LET fld == FieldOf(pc[r])
           dest == r + core_difference[r]
       IN  /\ chan' = [chan EXCEPT ![<<r, dest>>] =
                          Append(@, [kind |-> fld, val |-> FieldValue(r, fld),
                                     step |-> i[r]])]
           /\ IF rendezvous
              THEN /\ pc' = [pc EXCEPT ![r] =
                                CASE fld = "a" -> "wait_a" [] fld = "b" -> "wait_b"
                                  [] fld = "n" -> "wait_n"]
                   /\ UNCHANGED getInputVars
              ELSE AfterField(r, fld, "send_b", "send_n")
    /\ UNCHANGED <<comm_sz, rendezvous, file, a, b, n, mainVars, output, nrecv>>

\* A synchronous MPI_Send returns once the partner has received the message.
BcastSendDone(r) ==
    /\ pc[r] \in {"wait_a", "wait_b", "wait_n"}
    /\ chan[<<r, r + core_difference[r]>>] = <<>>
    /\ AfterField(r, FieldOf(pc[r]), "send_b", "send_n")
    /\ UNCHANGED <<comm_sz, rendezvous, file, a, b, n, mainVars, chan, output,
                   nrecv>>

\* MPI_Recv of a, b or n from my_rank-core_difference (lines 139-141): it
\* takes the oldest message of that sender, whatever it carries.  Each
\* message also records the iteration it was sent in (history only).
BcastRecv(r) ==
    /\ pc[r] \in {"recv_a", "recv_b", "recv_n"}
    /\ LET fld == FieldOf(pc[r])
           src == r - core_difference[r]
       IN  /\ src \in Ranks
           /\ chan[<<src, r>>] # <<>>
           /\ chan' = [chan EXCEPT ![<<src, r>>] = Tail(@)]
           /\ a' = IF fld = "a" THEN [a EXCEPT ![r] = Oldest(chan[<<src, r>>]).val] ELSE a
           /\ b' = IF fld = "b" THEN [b EXCEPT ![r] = Oldest(chan[<<src, r>>]).val] ELSE b
           /\ n' = IF fld = "n" THEN [n EXCEPT ![r] = Oldest(chan[<<src, r>>]).val] ELSE n
           /\ AfterField(r, fld, "recv_b", "recv_n")
    /\ UNCHANGED <<comm_sz, rendezvous, file, mainVars, output, nrecv>>

\* ----------------------------------------------------------------- main
\* A send of local_int addressed to the next rank instead of rank 0.
GatherDestNeighbour(r) == (r + 1) % comm_sz

\* The destination of a rank's local_int (line 73): rank 0.
GatherDest(r) == 0

\* MPI_Send(&local_int, ..., 0, 0, ...) of a rank other than 0 (line 73); once
\* the send has returned the rank goes to MPI_Finalize and ends (lines 85-94).
SendLocalInt(r) ==
    /\ pc[r] = "send_int"
    /\ chan' = [chan EXCEPT ![<<r, GatherDest(r)>>] =
                   Append(@, [kind |-> "local_int", val |-> local_int[r],
                              step |-> i[r]])]
    /\ pc' = [pc EXCEPT ![r] = IF rendezvous THEN "wait_int" ELSE "done"]
    /\ UNCHANGED <<comm_sz, rendezvous, file, getInputVars, a, b, n, mainVars,
                   output, nrecv>>

SendLocalIntDone(r) ==
    /\ pc[r] = "wait_int"
    /\ chan[<<r, GatherDest(r)>>] = <<>>
    /\ pc' = [pc EXCEPT ![r] = "done"]
    /\ UNCHANGED <<comm_sz, rendezvous, file, getInputVars, a, b, n, mainVars,
                   chan, output, nrecv>>

\* One iteration of the gather loop at rank 0 (lines 77-81): the receive
\* overwrites rank 0's own local_int.
GatherRecv ==
    /\ 0 \in Ranks
    /\ pc[0] = "gather"
    /\ ~GatherDone(source, comm_sz)
    /\ chan[<<source, 0>>] # <<>>
    /\ chan' = [chan EXCEPT ![<<source, 0>>] = Tail(@)]
    /\ local_int' = [local_int EXCEPT ![0] = Oldest(chan[<<source, 0>>]).val]
    /\ total_int' = Accumulate(total_int, Oldest(chan[<<source, 0>>]).val)
    /\ source' = NextSource(source)
    /\ UNCHANGED <<comm_sz, rendezvous, file, pc, getInputVars, a, b, n, h,
                   local_n, local_a, local_b, output, nrecv>>

\* The gather loop ends when source reaches comm_sz.
GatherExit ==
    /\ 0 \in Ranks
    /\ pc[0] = "gather"
    /\ GatherDone(source, comm_sz)
    /\ pc' = [pc EXCEPT ![0] = "print"]
    /\ UNCHANGED <<comm_sz, rendezvous, file, getInputVars, a, b, n, mainVars,
                   chan, output, nrecv>>

\* Lines 85-94: rank 0 prints n, a, b and total_int, then finalizes and ends.
PrintResult ==
    /\ 0 \in Ranks
    /\ pc[0] = "print"
    /\ output' = Append(output, [rank |-> 0, what |-> "result", n |-> n[0],
                                 a |-> a[0], b |-> b[0], total |-> total_int])
    /\ pc' = [pc EXCEPT ![0] = "done"]
    /\ UNCHANGED <<comm_sz, rendezvous, file, getInputVars, a, b, n, mainVars,
                   chan, nrecv>>

\* The steps of rank r.
RankStep(r) ==
    \/ EnterGetInput(r)
    \/ (r = 0 /\ ReadInput)
    \/ LoopStep(r)
    \/ BcastSend(r)
    \/ BcastSendDone(r)
    \/ BcastRecv(r)
    \/ SendLocalInt(r)
    \/ SendLocalIntDone(r)
    \/ (r = 0 /\ (GatherRecv \/ GatherExit \/ PrintResult))

Next ==
    \/ \E r \in Ranks : EnterGetInput(r)
    \/ ReadInput
    \/ \E r \in Ranks : LoopStep(r)
    \/ \E r \in Ranks : BcastSend(r)
    \/ \E r \in Ranks : BcastSendDone(r)
    \/ \E r \in Ranks : BcastRecv(r)
    \/ \E r \in Ranks : SendLocalInt(r)
    \/ \E r \in Ranks : SendLocalIntDone(r)
    \/ GatherRecv
    \/ GatherExit
    \/ PrintResult

Spec == Init /\ [][Next]_vars

\* Every rank is an operating-system process of its own: a rank that can
\* take a step eventually takes one.
FairSpec == Spec /\ \A r \in 0 .. MaxN - 1 : WF_vars(r \in Ranks /\ RankStep(r))

\* ----------------------------------------------------------- vocabulary
\* Rank r has returned from Get_input.
Returned(r) == pc[r] \in {"send_int", "wait_int", "gather", "print", "done"}

\* Rank r is inside the send branch / the receive branch of a broadcast step.
InSendBranch(r) == pc[r] \in {"send_a", "send_b", "send_n", "wait_a", "wait_b", "wait_n"}
InRecvBranch(r) == pc[r] \in {"recv_a", "recv_b", "recv_n"}

\* Rank 0 has left the gather loop.
GatherLeft == pc[0] \in {"print", "done"}

\* The input file exists and holds all three numbers.
InputOk == file.exists /\ Len(file.fields) = 3

\* Rank 0 has printed the final estimate.
ResultPrinted == \E k \in 1 .. Len(output) : output[k].what = "result"

\* The estimate rank r computed for its own interval (rank 0's local_int is
\* overwritten by the gather's receives, so it is recomputed from its interval).
OwnEstimate(r) ==
    IF r = 0 THEN Trap(local_a[0], local_b[0], local_n[0], h[0]) ELSE local_int[r]

\* OwnEstimate(0) + OwnEstimate(1) + ... + OwnEstimate(k-1), added left to right.
RECURSIVE SumInRankOrder(_)
SumInRankOrder(k) ==
    IF k = 1 THEN OwnEstimate(0)
    ELSE RAdd(SumInRankOrder(k - 1), OwnEstimate(k - 1))

\* ---------------------------------------------------------------- claims
\* C1: a rank that has returned from Get_input holds a, b and n equal to the
\* values rank 0 holds after reading the input (the file's three numbers
\* when the file is complete); none of them is still a placeholder.
C1_BroadcastValues ==
    \A r \in Ranks :
        Returned(r) =>
            /\ a[r] = a[0] /\ b[r] = b[0] /\ n[r] = n[0]
            /\ a[r] # UndefD /\ b[r] # UndefD /\ n[r] # UndefI
            /\ InputOk => <<a[r], b[r], n[r]>> = file.fields

C1_Witness ==
    /\ comm_sz = 4 /\ InputOk
    /\ \A r \in Ranks : Returned(r)
    /\ a[3] = <<0, 1>> /\ b[3] = <<1, 1>> /\ n[3] = 3

\* C2: with rendezvous sends and a complete input file the broadcast
\* terminates: the run never comes to a stop while some rank is still inside
\* Get_input.
C2_BroadcastTerminates ==
    (rendezvous /\ InputOk) => ((\A r \in Ranks : Returned(r)) \/ ENABLED Next)

\* C3: while rank 0 is in the gather loop, and when it has left it, total_int
\* is the sum of the estimates of ranks 0 .. source-1, added in increasing
\* rank order starting from rank 0's own; it leaves with source = comm_sz,
\* that is with every rank's estimate added exactly once.
C3_ReductionSum ==
    pc[0] \in {"gather", "print", "done"} =>
        /\ source \in 1 .. comm_sz
        /\ \A r \in 1 .. source - 1 : local_int[r] # UndefD
        /\ total_int = SumInRankOrder(source)
        /\ GatherLeft => source = comm_sz

C3_Witness ==
    /\ comm_sz = 4 /\ GatherLeft /\ n[0] = 4 /\ b[0] = <<1, 1>>
    /\ total_int = SumInRankOrder(4)

\* C4: rank 0 never enters the receive branch, every other rank enters it
\* at most once and exactly once by the time it returns, and a rank that is
\* a multiple of the current stride is never in the receive branch.
C4_ReceiveOnce ==
    /\ nrecv[0] = 0
    /\ \A r \in Ranks \ {0} :
          /\ nrecv[r] <= 1
          /\ Returned(r) => nrecv[r] = 1
    /\ \A r \in Ranks : InRecvBranch(r) => r % divisor[r] # 0

\* C5: a rank never runs more than ceil(log2(comm_sz)) iterations of the
\* broadcast loop and has run exactly that many when Get_input returns; with
\* one process the loop body never runs and no message exists.
C5_StepCount ==
    \A r \in Ranks :
        /\ Pow2(i[r]) < 2 * comm_sz
        /\ i[r] > 0 => Pow2(i[r] - 1) < comm_sz
        /\ Returned(r) => Pow2(i[r]) >= comm_sz
        /\ comm_sz = 1 =>
              /\ i[r] = 0 /\ ~InSendBranch(r) /\ ~InRecvBranch(r)
              /\ chan[<<0, 0>>] = <<>>

C5_Witness == comm_sz = 3 /\ Returned(1) /\ i[1] = 2 /\ Returned(0) /\ i[0] = 2

\* C6: every line of output comes from rank 0, and once the final estimate
\* is printed rank 0 has received and added the estimate of every other
\* rank: each of them has sent it, none is left in flight, and the printed
\* total is the complete sum.
C6_OutputDiscipline ==
    /\ \A k \in 1 .. Len(output) : output[k].rank = 0
    /\ ResultPrinted =>
          /\ source = comm_sz
          /\ \A r \in Ranks \ {0} :
                /\ pc[r] \in {"wait_int", "done"}
                /\ chan[<<r, 0>>] = <<>>
          /\ output[Len(output)].total = SumInRankOrder(comm_sz)

C6_Witness == comm_sz = 4 /\ ResultPrinted /\ rendezvous /\ pc[3] = "wait_int"

\* C7: when the input file is missing or incomplete no broadcast message is
\* ever sent and no other rank receives a value of a, b or n.
C7_ConfigErrorStopsRun ==
    ~InputOk =>
        /\ \A p \in Ranks \X Ranks : chan[p] = <<>>
        /\ \A r \in Ranks \ {0} : a[r] = UndefD /\ b[r] = UndefD /\ n[r] = UndefI

\* The segments of rank r in units of trapezoid index, as main computes them.
SegLo(r) == r * local_n[r]
SegHi(r) == SegLo(r) + local_n[r]
Computed(r) == Returned(r)

\* C8: rank r is assigned the segments [r*local_n, (r+1)*local_n) with
\* local_n = n/comm_sz truncated; the ranges start at segment 0, are
\* contiguous and pairwise disjoint, and end at n - n mod comm_sz: all n
\* segments when comm_sz divides n, all but the last n mod comm_sz otherwise.
C8_PartitionCoverage ==
    \A r \in Ranks :
        Computed(r) =>
            /\ local_n[r] * comm_sz <= n[r]
            /\ n[r] < (local_n[r] + 1) * comm_sz
            /\ local_a[r] = RAdd(a[r], RScale(SegLo(r), h[r]))
            /\ local_b[r] = RAdd(a[r], RScale(SegHi(r), h[r]))
            /\ r = 0 => SegLo(r) = 0
            /\ \A q \in Ranks :
                  (Computed(q) /\ q < r) => SegHi(q) <= SegLo(r)
            /\ (r > 0 /\ Computed(r - 1)) => SegLo(r) = SegHi(r - 1)
            /\ r = comm_sz - 1 =>
                  /\ SegHi(r) = n[r] - (n[r] % comm_sz)
                  /\ n[r] % comm_sz = 0 => (SegHi(r) = n[r] /\ local_b[r] = b[r])

C8_Witness ==
    /\ comm_sz = 2 /\ \A r \in Ranks : Computed(r)
    /\ n[0] = 3 /\ local_n[1] = 1 /\ SegLo(1) = 1 /\ SegHi(1) = 2

\* C9: when comm_sz divides n, the total rank 0 has after adding the
\* estimates of ranks 0 .. source-1 is the serial estimate over their
\* segments, so the total it leaves the gather loop with is Trap(a, b, n, h);
\* for a = 0, b = 1, n = 4 and four processes it is 11/32 = 0.34375.
C9_ParallelEqualsSerial ==
    (pc[0] \in {"gather", "print", "done"} /\ n[0] % comm_sz = 0) =>
        /\ total_int = Trap(a[0], RAdd(a[0], RScale(source * local_n[0], h[0])),
                            source * local_n[0], h[0])
        /\ GatherLeft => total_int = Trap(a[0], b[0], n[0], StepH(a[0], b[0], n[0]))
        /\ (GatherLeft /\ comm_sz = 4 /\ n[0] = 4 /\ a[0] = <<0, 1>> /\ b[0] = <<1, 1>>)
              => total_int = <<11, 32>>

C9_Witness ==
    /\ comm_sz = 4 /\ GatherLeft
    /\ n[0] = 4 /\ a[0] = <<0, 1>> /\ b[0] = <<1, 1>>
    /\ total_int = <<11, 32>>

\* C10: in every broadcast step a rank is in the receive branch, waiting for
\* rank r - core_difference, exactly if that rank is a sender of the same
\* step, and a rank in the send branch sends to a receiver of the same step.
C10_ConsistentPairing ==
    \A r \in Ranks :
        /\ InRecvBranch(r) =>
              /\ r - core_difference[r] \in Ranks
              /\ SendCond(r - core_difference[r], divisor[r], core_difference[r],
                          comm_sz)
        /\ InSendBranch(r) =>
              /\ r + core_difference[r] \in Ranks
              /\ RecvCond(r + core_difference[r], divisor[r], core_difference[r],
                          comm_sz)


\* comm_sz is a power of two.
PowerOfTwo == comm_sz = Pow2(CeilLog2(comm_sz))

\* The ranks that hold a complete configuration.
Informed == {r \in Ranks : a[r] # UndefD /\ b[r] # UndefD /\ n[r] # UndefI}

\* The kinds of the messages of q, in order.
Kinds(q) == [k \in 1 .. Len(q) |-> q[k].kind]

\* s -> d is an edge of the binomial tree: d = s + 2^k with s a multiple of 2^(k+1).
TreeEdge(s, d) ==
    \E k \in 0 .. MaxN : d = s + Pow2(k) /\ s % Pow2(k + 1) = 0

\* C11: a rank in the send branch holds rank 0's values; until it sends n its
\* peer my_rank + core_difference holds no configuration; configuration
\* messages travel only along tree edges, each field at most once per edge
\* (so one peer per step); and for comm_sz a power of two, when every rank
\* has completed exactly k steps, 2^k ranks hold the configuration.
C11_InformedForward ==
    /\ \A r \in Ranks :
          InSendBranch(r) =>
              /\ r \in Informed
              /\ a[r] = a[0] /\ b[r] = b[0] /\ n[r] = n[0]
              /\ r + core_difference[r] \in Ranks
              /\ pc[r] \in {"send_a", "wait_a", "send_b", "wait_b", "send_n"}
                    => n[r + core_difference[r]] = UndefI
              /\ pc[r] = "send_a" => r + core_difference[r] \notin Informed
                                     /\ a[r + core_difference[r]] = UndefD
    /\ \A s \in Ranks, d \in Ranks \ {0} :
          chan[<<s, d>>] # <<>> =>
              /\ TreeEdge(s, d)
              /\ Kinds(chan[<<s, d>>]) \in
                    {<<"a">>, <<"b">>, <<"n">>, <<"a", "b">>, <<"b", "n">>,
                     <<"a", "b", "n">>}
    /\ (/\ \A r \in Ranks : i[r] = i[0] /\ (pc[r] = "loop" \/ Returned(r))
        /\ PowerOfTwo)
          => Cardinality(Informed) = Pow2(i[0])

C11_Witness ==
    /\ comm_sz = 4
    /\ \A r \in Ranks : i[r] = 1 /\ pc[r] = "loop"
    /\ Informed = {0, 2}

\* C12: whenever a broadcast receive can take a message, the oldest message
\* of its partner is the one the partner sent in the same step for the same
\* field, and it carries the partner's value of that field.
C12_NoStaleValue ==
    \A r \in Ranks :
        (/\ InRecvBranch(r)
         /\ r - core_difference[r] \in Ranks
         /\ chan[<<r - core_difference[r], r>>] # <<>>)
            => LET m == Oldest(chan[<<r - core_difference[r], r>>])
               IN  /\ m.kind = FieldOf(pc[r])
                   /\ m.step = i[r]
                   /\ m.val = FieldValue(r - core_difference[r], m.kind)

C12_Witness ==
    /\ comm_sz = 4 /\ ~rendezvous
    /\ pc[3] = "recv_b" /\ i[3] = 1
    /\ Kinds(chan[<<2, 3>>]) = <<"b", "n">>


\* Rank 0 has entered the gather loop.
GatherStarted == 0 \in Ranks /\ pc[0] \in {"gather", "print", "done"}

\* Rank k has sent its local_int.
SentLocalInt(k) == pc[k] \in {"wait_int", "done"}

\* C13: the estimates rank 0 has consumed are always exactly those of ranks
\* 1 .. source-1, whatever ranks have theirs in flight: a sent estimate of a
\* rank >= source stays in its channel; and under rendezvous a rank k whose
\* send has completed has been received, so source > k and rank 0 has
\* received from every rank 1 .. k-1 before.
C13_GatherOrder ==
    /\ GatherStarted => source \in 1 .. comm_sz
    /\ \A k \in Ranks \ {0} :
          /\ (GatherStarted /\ k < source)
                => SentLocalInt(k) /\ chan[<<k, 0>>] = <<>>
          /\ (SentLocalInt(k) /\ ~(GatherStarted /\ k < source))
                => Kinds(chan[<<k, 0>>]) = <<"local_int">>
          /\ (rendezvous /\ pc[k] = "done")
                => GatherStarted /\ source > k

C13_Witness ==
    /\ comm_sz = 4 /\ rendezvous
    /\ pc[0] = "gather" /\ source = 1
    /\ ~SentLocalInt(1)
    /\ pc[3] = "wait_int" /\ chan[<<3, 0>>] # <<>>


\* C14: once a rank has set up its loop variables, as long as an iteration
\* remains (i < count, the states in which the role test is evaluated)
\* divisor = 2^(count-i) >= 2 and core_difference = 2^(count-i-1) >= 1;
\* core_difference is 0 only when no iteration remains.
C14_NoModulusByZero ==
    \A r \in Ranks :
        pc[r] # "start" =>
            /\ i[r] < count[r] =>
                  /\ divisor[r] >= 2 /\ core_difference[r] >= 1
                  /\ divisor[r] = Pow2(count[r] - i[r])
                  /\ core_difference[r] = Pow2(count[r] - i[r] - 1)
            /\ core_difference[r] = 0 => i[r] = count[r]

C14_Witness ==
    /\ comm_sz = 3
    /\ pc[2] = "loop" /\ i[2] = 1 /\ count[2] = 2
    /\ divisor[2] = 2 /\ core_difference[2] = 1
    /\ Returned(0) /\ core_difference[0] = 0


\* C15: (as claimed) for every rank that has computed its estimate from a
\* configuration with n > 0, Trap called f exactly local_n + 1 times.
C15_TrapPoints ==
    \A r \in Ranks :
        (Computed(r) /\ n[r] > 0) => TrapEvals(local_n[r]) = local_n[r] + 1

\* C15 (amended): Trap calls f exactly local_n + 1 times when local_n >= 1;
\* when local_n = 0 (n < comm_sz) it calls f twice, once for each endpoint.
C15_TrapPointsPositive ==
    \A r \in Ranks :
        (Computed(r) /\ n[r] > 0) =>
            /\ local_n[r] >= 0
            /\ local_n[r] >= 1 => TrapEvals(local_n[r]) = local_n[r] + 1
            /\ local_n[r] = 0 => TrapEvals(local_n[r]) = 2

C15_Witness ==
    /\ comm_sz = 2 /\ Computed(1)
    /\ n[1] = 4 /\ local_n[1] = 2
    /\ TrapEvals(local_n[1]) = 3


\* Every rank has reached MPI_Finalize.
AllFinalized == \A r \in Ranks : pc[r] = "done"

C17_PhaseIsolation ==
    /\ \A s \in Ranks, d \in Ranks :
          \A k \in 1 .. Len(chan[<<s, d>>]) :
              IF d = 0 THEN chan[<<s, d>>][k].kind = "local_int"
                       ELSE chan[<<s, d>>][k].kind \in {"a", "b", "n"}
    /\ \A r \in Ranks :
          (/\ InRecvBranch(r)
           /\ r - core_difference[r] \in Ranks
           /\ chan[<<r - core_difference[r], r>>] # <<>>)
              => Oldest(chan[<<r - core_difference[r], r>>]).kind # "local_int"
    /\ (/\ 0 \in Ranks /\ pc[0] = "gather" /\ ~GatherDone(source, comm_sz)
        /\ chan[<<source, 0>>] # <<>>)
          => Oldest(chan[<<source, 0>>]).kind = "local_int"

C17_Witness ==
    /\ comm_sz = 4 /\ ~rendezvous
    /\ InRecvBranch(3) /\ chan[<<2, 3>>] # <<>>
    /\ pc[1] = "done" /\ chan[<<1, 0>>] # <<>>


\* The estimate rank r computes from the input fields <<a, b, n>> in a group
\* of sz ranks (lines 61-69).
RankEstimate(fields, sz, r) ==
    LET hh == StepH(fields[1], fields[2], fields[3])
        ln == LocalN(fields[3], sz)
        la == LocalA(fields[1], r, ln, hh)
    IN  Trap(la, LocalB(la, ln, hh), ln, hh)

\* The total of the estimates of ranks 0 .. k-1, added in rank order: a
\* function of the input and the group size alone.
RECURSIVE ExpectedTotal(_, _, _)
ExpectedTotal(fields, sz, k) ==
    IF k = 1 THEN RankEstimate(fields, sz, 0)
    ELSE RAdd(ExpectedTotal(fields, sz, k - 1), RankEstimate(fields, sz, k - 1))

\* C18: for a complete input file and comm_sz a power of two, the values a
\* rank ever holds for a, b, n are the file's, and at the end of the run the
\* configuration of every rank and rank 0's total (also as printed) are
\* given by the input and comm_sz alone: the same whatever the interleaving
\* and whether sends are rendezvous or buffered.
C18_ScheduleIndependent ==
    (InputOk /\ PowerOfTwo) =>
        /\ \A r \in Ranks :
              /\ a[r] \in {UndefD, file.fields[1]}
              /\ b[r] \in {UndefD, file.fields[2]}
              /\ n[r] \in {UndefI, file.fields[3]}
        /\ AllFinalized =>
              /\ \A r \in Ranks : <<a[r], b[r], n[r]>> = file.fields
              /\ total_int = ExpectedTotal(file.fields, comm_sz, comm_sz)
              /\ \E k \in 1 .. Len(output) :
                    /\ output[k].what = "result"
                    /\ output[k].total = ExpectedTotal(file.fields, comm_sz, comm_sz)
                    /\ <<output[k].a, output[k].b, output[k].n>> = file.fields

C18_Witness ==
    /\ comm_sz = 4 /\ ~rendezvous /\ InputOk
    /\ AllFinalized
    /\ file.fields = <<<<0, 1>>, <<1, 1>>, 3>>
    /\ total_int = ExpectedTotal(file.fields, comm_sz, comm_sz)

====
